---------------------------- MODULE Spec2Model ----------------------------
(***************************************************************************)
(* Model of src/src/batched-queue.js: class BatchedQueue, a buffer that    *)
(* flushes when it reaches a size limit or when an interval timer fires.   *)
(*                                                                         *)
(* The fields of the object are the variables.  Every public method and    *)
(* the timer callback is one action; the private methods it calls          *)
(* (_flushCheck, _flush, _clearTimer) are operators on a record holding    *)
(* the mutable part of the object, so an action is the whole call.         *)
(*                                                                         *)
(* Time is abstracted: a scheduled timeout may fire at any later step.     *)
(* Items are numbered in the order they are offered (1, 2, ...), so that   *)
(* order and identity of delivered items can be told apart.                *)
(***************************************************************************)
EXTENDS Integers, Sequences, FiniteSets

(* Bounds of the exploration. *)
MaxLimit == 3
MaxCargoLimit == 2
MaxSafety == 2
MaxItems == 3
MaxTimers == 2
MaxNest == 1

(* Option values the constructor is given. *)
LimitOptions == 1..MaxLimit
CargoLimitOptions == 1..MaxCargoLimit
SafetyOptions == 1..MaxSafety

(* `undefined` for this._timer: the property is absent (never set, or deleted). *)
NoTimer == 0

VARIABLES
    _q,              \* this._q: the buffer (one array object, mutated in place)
    _flushLimit,     \* this._flushLimit
    _cargoMode,      \* this._cargoMode
    _cargoLimit,     \* this._cargoLimit (0 when never assigned)
    _safetyLimit,    \* this._safetyLimit
    _flushing,       \* this._flushing
    _timer,          \* this._timer: handle of the armed timeout, or NoTimer
    scheduled,       \* timeouts the event loop still holds (set, not yet fired or cleared)
    timerCount,      \* number of setTimeout calls so far; handles are 1, 2, ...
    itemCount,       \* number of push/unshift calls so far; items are 1, 2, ...
    emitted,         \* notifications handed out so far, in order (observer side)
    outstanding,     \* cargo handler invocations whose resume callback was not yet called
    revoked,         \* history: timer handles that were pending when empty() was called
    fired,           \* history: timer handles whose callback has run
    discarded,       \* history: items that were in the buffer when empty() was called
    unshiftUsed,     \* history: some unshift call has been made
    accepted,        \* history: items push/unshift added to the buffer (not dropped)
    reentered,       \* history: items offered by a callback while a notification was delivered
    maxInFlight,     \* history: greatest number of notifications in delivery at one time
    construction     \* the `new BatchedQueue(options)` expression: its stage and options

config == <<_flushLimit, _cargoMode, _cargoLimit, _safetyLimit>>
vars == <<_q, _flushLimit, _cargoMode, _cargoLimit, _safetyLimit, _flushing, _timer,
          scheduled, timerCount, itemCount, emitted, outstanding, revoked, fired,
          discarded, unshiftUsed, accepted, reentered, maxInFlight, construction>>

Min(a, b) == IF a < b THEN a ELSE b
Max(a, b) == IF a > b THEN a ELSE b

(* The elements of a sequence. *)
Items(seq) == {seq[i] : i \in DOMAIN seq}

(* The mutable part of the object and of its environment, as the methods see it. *)
(* `plan` is what the callbacks (the 'flush' listener, the cargo handler) will    *)
(* do, one entry per notification still to come: nothing when it is empty;        *)
(* `inFlight` counts the notifications whose callback has not returned yet.       *)
This ==
    [q |-> _q, flushing |-> _flushing, timer |-> _timer, scheduled |-> scheduled,
     timerCount |-> timerCount, emitted |-> emitted, outstanding |-> outstanding,
     itemCount |-> itemCount, accepted |-> accepted, reentered |-> reentered,
     maxInFlight |-> maxInFlight, inFlight |-> 0, plan |-> <<>>]

(* What a callback may do with the queue while it is being notified. *)
Reactions == {"push", "unshift", "resume"}

RECURSIVE listener(_), _flush(_), _flushCheck(_), push(_, _), unshift(_, _), resume(_)

(* get length() *)
length(s) == Len(s.q)

(* Mutant of saturated: the buffer must exceed the threshold, not reach it. *)
saturated_strict(s) ==
    IF _cargoMode
    THEN length(s) > _cargoLimit
    ELSE length(s) > _flushLimit

(* get saturated() *)
saturated(s) ==
    IF _cargoMode
    THEN length(s) >= _cargoLimit
    ELSE length(s) >= _flushLimit

(* Mutant of overLimit: nothing is ever dropped. *)
overLimit_never(s) == FALSE

(* The test at the head of push and unshift: the item is dropped. *)
overLimit(s) == length(s) > _safetyLimit

(* clearTimeout(handle): the event loop forgets the timeout; a no-op if it is gone. *)
clearTimeout(s, h) == [s EXCEPT !.scheduled = @ \ {h}]

(* setTimeout(cb, ms): a fresh handle, held by the event loop until fired or cleared. *)
setTimeout(s) ==
    [s EXCEPT !.timerCount = @ + 1,
              !.scheduled = @ \cup {s.timerCount + 1},
              !.timer = s.timerCount + 1]

(* Mutant of _clearTimer: the handle is deleted, the timeout is not cleared. *)
_clearTimer_keepsTimeout(s) == [s EXCEPT !.timer = NoTimer]

(* _clearTimer() *)
_clearTimer(s) ==
    IF s.timer # NoTimer
    THEN [clearTimeout(s, s.timer) EXCEPT !.timer = NoTimer]
    ELSE s

(* Mutant of pause: the flag is cleared, the pending timer is left armed. *)
pause_keepsTimer(s) == [s EXCEPT !.flushing = FALSE]

(* pause() *)
pause(s) == _clearTimer([s EXCEPT !.flushing = FALSE])

(* this.cargoMode, as _flush reads it: no code assigns a property of that name *)
(* (the constructor assigns _cargoMode), so the read yields undefined: falsy.  *)
cargoMode == FALSE

(* What an observer is handed.  `items` is the content at hand-off; `alias`   *)
(* says that the array handed over is the queue's own this._q object.         *)
Notification(type, items, alias, sat) ==
    [type |-> type, items |-> items, alias |-> alias, saturated |-> sat]

(* A notification starts: the callback is entered. *)
enter(s, n) ==
    [s EXCEPT !.emitted = Append(@, n),
              !.inFlight = @ + 1,
              !.maxInFlight = Max(@, s.inFlight + 1)]

(* The callback (the 'flush' listener of emit, the cargo handler) runs, synchronously, *)
(* inside _flush: it does the next thing of the plan, calling back into the queue,     *)
(* and returns.                                                                        *)
listener(s) ==
    LET r == IF s.plan = <<>> THEN "none" ELSE Head(s.plan)
        t == [s EXCEPT !.plan = IF s.plan = <<>> THEN <<>> ELSE Tail(s.plan)]
        v == t.itemCount + 1
        offer == [t EXCEPT !.itemCount = v, !.reentered = @ \cup {v}]
        u == CASE r = "push" -> push(offer, v)
               [] r = "unshift" -> unshift(offer, v)
               [] r = "resume" -> resume(t)
               [] OTHER -> t
    IN  [u EXCEPT !.inFlight = @ - 1]

(* Mutant of _flush: the batch is emitted, the buffer is not cleared. *)
_flush_keepsBuffer(s) ==
    LET s1 == _clearTimer(s)
    IN  listener(enter(s1, Notification("flush", s1.q, TRUE, saturated(s1))))

(* _flush() *)
_flush(s) ==
    LET s1 == _clearTimer(s)
        sat == saturated(s1)
    IN  IF cargoMode /\ _cargoLimit > 0
        THEN LET n == Min(_cargoLimit, Len(s1.q))
                 chunk == SubSeq(s1.q, 1, n)
                 rest == SubSeq(s1.q, n + 1, Len(s1.q))
                 s2 == enter([s1 EXCEPT !.q = rest, !.outstanding = @ + 1],
                             Notification("cargo", chunk, FALSE, sat))
             IN  pause(listener(s2))
        ELSE LET s2 == enter(s1, Notification("flush", s1.q, TRUE, sat))
             IN  [listener(s2) EXCEPT !.q = <<>>]

(* Mutant of _flushCheck: a new timeout is set whether or not one is pending. *)
_flushCheck_rearm(s) ==
    IF ~s.flushing THEN s
    ELSE IF saturated(s) THEN _flush(s)
    ELSE setTimeout(s)

(* Mutant of _flushCheck: the flushing flag is not consulted. *)
_flushCheck_ignoresPause(s) ==
    IF saturated(s) THEN _flush(s)
    ELSE IF s.timer = NoTimer THEN setTimeout(s)
    ELSE s

(* Mutant of _flushCheck: an unsaturated buffer is left without a timer. *)
_flushCheck_neverArms(s) ==
    IF ~s.flushing THEN s
    ELSE IF saturated(s) THEN _flush(s)
    ELSE s

(* _flushCheck() *)
_flushCheck(s) ==
    IF ~s.flushing THEN s
    ELSE IF saturated(s) THEN _flush(s)
    ELSE IF s.timer = NoTimer THEN setTimeout(s)
    ELSE s

(* push(val) *)
push(s, val) ==
    IF overLimit(s) THEN s
    ELSE _flushCheck([s EXCEPT !.q = Append(@, val), !.accepted = @ \cup {val}])

(* Mutant of unshift: the item is added at the tail, as push does. *)
unshift_atTail(s, val) ==
    IF overLimit(s) THEN s
    ELSE _flushCheck([s EXCEPT !.q = Append(@, val), !.accepted = @ \cup {val}])

(* unshift(val) *)
unshift(s, val) ==
    IF overLimit(s) THEN s
    ELSE _flushCheck([s EXCEPT !.q = <<val>> \o @, !.accepted = @ \cup {val}])

(* empty() *)
empty(s) == _clearTimer([s EXCEPT !.q = <<>>])

(* resume() *)
resume(s) == _flushCheck([s EXCEPT !.flushing = TRUE])

(* A constructed queue, for the specifications of its methods. *)
Constructed == [stage |-> "constructed"]

(* The object after a call: the fields take the values the call left. *)
Becomes(s) ==
    /\ s.timerCount <= MaxTimers
    /\ s.itemCount <= MaxItems
    /\ _q' = s.q
    /\ _flushing' = s.flushing
    /\ _timer' = s.timer
    /\ scheduled' = s.scheduled
    /\ timerCount' = s.timerCount
    /\ itemCount' = s.itemCount
    /\ emitted' = s.emitted
    /\ outstanding' = s.outstanding
    /\ accepted' = s.accepted
    /\ reentered' = s.reentered
    /\ maxInFlight' = s.maxInFlight
    /\ UNCHANGED <<config, construction>>

(* An object with the fields the constructor body assigns (lines 18-29), for each *)
(* choice of options.  The `new` expression itself is the subject of SpecNew.     *)
Init ==
    /\ _q = <<>>
    /\ _flushLimit \in LimitOptions
    /\ _cargoMode \in BOOLEAN
    /\ _cargoLimit \in (IF _cargoMode THEN CargoLimitOptions ELSE {0})
    /\ _safetyLimit \in SafetyOptions
    /\ _flushing = TRUE
    /\ _timer = NoTimer
    /\ scheduled = {}
    /\ timerCount = 0
    /\ itemCount = 0
    /\ emitted = <<>>
    /\ outstanding = 0
    /\ revoked = {}
    /\ fired = {}
    /\ discarded = {}
    /\ unshiftUsed = FALSE
    /\ accepted = {}
    /\ reentered = {}
    /\ maxInFlight = 0
    /\ construction = Constructed

(* The plans of callbacks that never call back into the queue. *)
Passive == {<<>>}

(* The plans of callbacks that call back into the queue at most MaxNest times. *)
RECURSIVE PlansUpTo(_)
PlansUpTo(n) ==
    IF n = 0 THEN {<<>>}
    ELSE PlansUpTo(n - 1) \cup {<<r>> \o p : r \in Reactions, p \in PlansUpTo(n - 1)}

Reentrant == PlansUpTo(MaxNest)

(* A caller pushes the next item; the callbacks follow one of `plans`. *)
PushWith(plans) ==
    \E p \in plans :
        /\ Becomes(push([This EXCEPT !.itemCount = @ + 1, !.plan = p], itemCount + 1))
        /\ UNCHANGED <<revoked, fired, discarded, unshiftUsed>>

(* A caller unshifts the next item. *)
UnshiftWith(plans) ==
    \E p \in plans :
        /\ Becomes(unshift([This EXCEPT !.itemCount = @ + 1, !.plan = p], itemCount + 1))
        /\ unshiftUsed' = TRUE
        /\ UNCHANGED <<revoked, fired, discarded>>

(* resume() is called: by the owner, or, as the callback a cargo handler was *)
(* given (resume.bind(this)), by a handler that has finished.                *)
ResumeWith(plans) ==
    \E p \in plans, viaDone \in BOOLEAN :
        /\ viaDone => outstanding > 0
        /\ Becomes(resume([This EXCEPT !.outstanding = IF viaDone THEN @ - 1 ELSE @,
                                       !.plan = p]))
        /\ UNCHANGED <<revoked, fired, discarded, unshiftUsed>>

(* The event loop runs the callback of a scheduled timeout: _flush.bind(this). *)
TimerFireWith(plans) ==
    \E p \in plans, h \in scheduled :
        /\ Becomes(_flush([This EXCEPT !.scheduled = @ \ {h}, !.plan = p]))
        /\ fired' = fired \cup {h}
        /\ UNCHANGED <<revoked, discarded, unshiftUsed>>

Push == PushWith(Passive)

Unshift == UnshiftWith(Passive)

Resume == ResumeWith(Passive)

TimerFire == TimerFireWith(Passive)

(* A caller empties the queue. *)
Empty ==
    /\ Becomes(empty(This))
    /\ revoked' = revoked \cup scheduled
    /\ discarded' = discarded \cup Items(_q)
    /\ UNCHANGED <<fired, unshiftUsed>>

(* A caller pauses the queue. *)
Pause ==
    /\ Becomes(pause(This))
    /\ UNCHANGED <<revoked, fired, discarded, unshiftUsed>>

Next == Push \/ Unshift \/ Empty \/ Pause \/ Resume \/ TimerFire

(* The queue with callbacks that do not call back into it. *)
Spec == Init /\ [][Next]_vars

(* The event loop runs the callback of a timeout that stays scheduled: a timer *)
(* that is due and is not cleared does fire.                                  *)
TimerFairness == WF_vars(TimerFire)

(* The queue of an owner who never calls pause() or empty(). *)
NextLive == Push \/ Unshift \/ Resume \/ TimerFire

SpecLive == Init /\ [][NextLive]_vars /\ TimerFairness

(* The same operations with callbacks that may call push, unshift or resume *)
(* on the queue while they are being notified.                              *)
PushReentrant == PushWith(Reentrant)

UnshiftReentrant == UnshiftWith(Reentrant)

ResumeReentrant == ResumeWith(Reentrant)

TimerFireReentrant == TimerFireWith(Reentrant)

NextReentrant ==
    \/ PushReentrant \/ UnshiftReentrant \/ ResumeReentrant \/ TimerFireReentrant
    \/ Empty \/ Pause

SpecReentrant == Init /\ [][NextReentrant]_vars

(***************************************************************************)
(* The expression `new BatchedQueue(options)`.                             *)
(***************************************************************************)

(* The defaults of lines 5, 7 and 8. *)
DEFAULT_FLUSH_LIMIT == 10000
DEFAULT_CARGO_LIMIT == 1
SAFETY_QUEUE_LIMIT == 2000000

(* A field that does not exist (yet). *)
Undefined == "undefined"

(* `new BatchedQueue()`: no options object; an absent option is 0 (falsy), *)
(* an absent cargo "absent".                                               *)
NoOptions ==
    [given |-> FALSE, limit |-> 0, cargo |-> "absent", cargoLimit |-> 0, safetyLimit |-> 0]

(* The options objects a caller passes; cargo is a function, absent, or a  *)
(* value that is not a function.                                           *)
OptionsGiven ==
    [given : {TRUE}, limit : 0..MaxLimit, cargo : {"absent", "function", "other"},
     cargoLimit : 0..MaxCargoLimit, safetyLimit : 0..MaxSafety]

(* a || d *)
Or(a, d) == IF a = 0 THEN d ELSE a

(* Whether `this` is bound in the constructor body: BatchedQueue extends   *)
(* EventEmitter (line 15) and its constructor (lines 16-30) contains no    *)
(* super() call, so `this` is never bound.                                 *)
superCalled == FALSE

(* constructor(options): what it throws, or the fields it leaves.          *)
(* Line 17 does not touch `this`; line 18, `this._q = []`, reads `this`    *)
(* in a derived constructor before super(): a ReferenceError.              *)
constructor(options) ==
    LET o == IF options.given THEN options ELSE NoOptions
    IN  IF ~superCalled
        THEN [threw |-> TRUE]
        ELSE [threw |-> FALSE,
              q |-> <<>>,
              flushLimit |-> Or(o.limit, DEFAULT_FLUSH_LIMIT),
              cargoMode |-> o.cargo = "function",
              cargoLimit |-> IF o.cargo = "function"
                             THEN Or(o.cargoLimit, DEFAULT_CARGO_LIMIT) ELSE 0,
              safetyLimit |-> Or(o.safetyLimit, SAFETY_QUEUE_LIMIT),
              flushing |-> TRUE,
              timer |-> NoTimer]

(* Before the expression is evaluated there is no object. *)
InitNew ==
    /\ construction \in [stage : {"new"}, options : {NoOptions} \cup OptionsGiven]
    /\ _q = Undefined
    /\ _flushLimit = Undefined
    /\ _cargoMode = Undefined
    /\ _cargoLimit = Undefined
    /\ _safetyLimit = Undefined
    /\ _flushing = Undefined
    /\ _timer = Undefined
    /\ scheduled = {}
    /\ timerCount = 0
    /\ itemCount = 0
    /\ emitted = <<>>
    /\ outstanding = 0
    /\ revoked = {}
    /\ fired = {}
    /\ discarded = {}
    /\ unshiftUsed = FALSE
    /\ accepted = {}
    /\ reentered = {}
    /\ maxInFlight = 0

(* The expression is evaluated: the constructor runs. *)
New ==
    /\ construction.stage = "new"
    /\ LET r == constructor(construction.options)
       IN  IF r.threw
           THEN /\ construction' = [construction EXCEPT !.stage = "threw"]
                /\ UNCHANGED <<_q, config, _flushing, _timer>>
           ELSE /\ construction' = [construction EXCEPT !.stage = "returned"]
                /\ _q' = r.q
                /\ _flushLimit' = r.flushLimit
                /\ _cargoMode' = r.cargoMode
                /\ _cargoLimit' = r.cargoLimit
                /\ _safetyLimit' = r.safetyLimit
                /\ _flushing' = r.flushing
                /\ _timer' = r.timer
    /\ UNCHANGED <<scheduled, timerCount, itemCount, emitted, outstanding, revoked, fired,
                   discarded, unshiftUsed, accepted, reentered, maxInFlight>>

NextNew == New

SpecNew == InitNew /\ [][NextNew]_vars

(***************************************************************************)
(* Vocabulary of the properties.                                           *)
(***************************************************************************)

Last(seq) == seq[Len(seq)]

(* The size that forces a flush: cargoChunkSize in cargo mode, sizeThreshold otherwise. *)
Threshold == IF _cargoMode THEN _cargoLimit ELSE _flushLimit

(* The item the next push or unshift offers. *)
NextItem == itemCount + 1

RECURSIVE Flat(_)
(* The items of the notifications `em`, in the order they were handed out. *)
Flat(em) == IF em = <<>> THEN <<>> ELSE Flat(SubSeq(em, 1, Len(em) - 1)) \o Last(em).items

(* The items handed out so far. *)
Delivered(em) == Items(Flat(em))

IsIncreasing(seq) == \A i, j \in DOMAIN seq : i < j => seq[i] < seq[j]

(* Exactly one notification was added by the step, carrying `items` and `sat`. *)
EmitsOne(type, items, sat) ==
    /\ Len(emitted') = Len(emitted) + 1
    /\ SubSeq(emitted', 1, Len(emitted)) = emitted
    /\ Last(emitted').type = type
    /\ Last(emitted').items = items
    /\ Last(emitted').saturated = sat

NoTimerPending == _timer = NoTimer /\ scheduled = {}

(* The content, now, of the array an observer received in notification e:   *)
(* emit passes this._q itself (line 112), so the observer's array is the    *)
(* queue's buffer and follows every later change of it (line 113, push,     *)
(* unshift, empty); splice (line 109) returns an array of its own.          *)
batchNow(e) == IF e.alias THEN _q ELSE e.items

(***************************************************************************)
(* C1.  In non-cargo mode with flushing enabled, the push or unshift that  *)
(* brings the buffer length to sizeThreshold flushes inside that call:     *)
(* exactly one 'flush' notification is emitted, carrying all sizeThreshold *)
(* items in buffer order with saturated = TRUE, the pending timer is       *)
(* cancelled and the buffer is empty when the call returns.                *)
(***************************************************************************)
C1_SaturatingPushFlushes ==
    [][ /\ ~_cargoMode /\ _flushing /\ Len(_q) + 1 = _flushLimit
        /\ Len(_q) <= _safetyLimit
        => /\ Push => /\ EmitsOne("flush", Append(_q, NextItem), TRUE)
                      /\ _q' = <<>> /\ NoTimerPending' /\ _flushing'
           /\ Unshift => /\ EmitsOne("flush", <<NextItem>> \o _q, TRUE)
                         /\ _q' = <<>> /\ NoTimerPending' /\ _flushing'
      ]_vars

(* Reached: a first timer was armed, then the buffer reached a limit of at  *)
(* least 2 and was flushed whole, saturated, the timer cancelled unfired.   *)
C1_Witness ==
    /\ ~_cargoMode /\ _flushLimit >= 2 /\ _flushing
    /\ Len(emitted) = 1 /\ emitted[1].saturated /\ emitted[1].type = "flush"
    /\ Len(emitted[1].items) = _flushLimit /\ itemCount = _flushLimit
    /\ _q = <<>> /\ timerCount = 1 /\ fired = {} /\ NoTimerPending

(***************************************************************************)
(* C2.  In non-cargo mode with flushing enabled, a push or unshift that    *)
(* leaves the buffer below sizeThreshold emits nothing and leaves exactly  *)
(* one timer pending (the one already pending, if any); when the timer     *)
(* fires on such a buffer exactly one flush is emitted, with exactly the   *)
(* buffered items and saturated = FALSE, and no timer remains that could   *)
(* cause a second flush.                                                   *)
(***************************************************************************)
C2_BelowThresholdWaitsForTimer ==
    /\ [][ /\ ~_cargoMode /\ _flushing /\ Len(_q) + 1 < _flushLimit
           /\ Len(_q) <= _safetyLimit
           /\ (Push \/ Unshift)
           => /\ emitted' = emitted
              /\ Len(_q') = Len(_q) + 1
              /\ _timer' # NoTimer /\ scheduled' = {_timer'}
              /\ (_timer # NoTimer => _timer' = _timer)
         ]_vars
    /\ [][ /\ ~_cargoMode /\ 0 < Len(_q) /\ Len(_q) < _flushLimit
           /\ TimerFire
           => /\ EmitsOne("flush", _q, FALSE)
              /\ _q' = <<>> /\ NoTimerPending'
         ]_vars

(* Reached: two items sat below a limit of 3 until the timer delivered them. *)
C2_Witness ==
    /\ ~_cargoMode /\ _flushLimit = 3 /\ _flushing
    /\ Len(emitted) = 1 /\ ~emitted[1].saturated
    /\ Len(emitted[1].items) = 2 /\ itemCount = 2
    /\ fired = {1} /\ timerCount = 1 /\ _q = <<>> /\ NoTimerPending

(***************************************************************************)
(* C3.  After any push or unshift the buffer length is at most safetyCap   *)
(* (safetyLimit), also while paused and when safetyLimit is smaller than   *)
(* the flush-triggering size.                                              *)
(***************************************************************************)
C3_Claim == Len(_q) <= _safetyLimit

(***************************************************************************)
(* C4.  pause() stops flushing and cancels the timer; while paused, a push *)
(* or unshift emits nothing and arms no timer, the item joining the buffer *)
(* (unless the safety cap drops it); resume() on a saturated buffer        *)
(* flushes inside the call, all accumulated items in one batch with        *)
(* saturated = TRUE, and on a non-empty unsaturated buffer arms the timer. *)
(***************************************************************************)
C4_PauseResume ==
    /\ [][ Pause => /\ ~_flushing' /\ NoTimerPending'
                    /\ emitted' = emitted /\ _q' = _q ]_vars
    /\ [][ ~_flushing /\ Push
           => /\ emitted' = emitted /\ NoTimerPending' /\ ~_flushing'
              /\ \/ _q' = Append(_q, NextItem)
                 \/ _q' = _q /\ Len(_q) >= _safetyLimit ]_vars
    /\ [][ ~_flushing /\ Unshift
           => /\ emitted' = emitted /\ NoTimerPending' /\ ~_flushing'
              /\ \/ _q' = <<NextItem>> \o _q
                 \/ _q' = _q /\ Len(_q) >= _safetyLimit ]_vars
    /\ [][ ~_flushing /\ Len(_q) >= Threshold /\ Resume
           => /\ EmitsOne("flush", _q, TRUE)
              /\ _q' = <<>> /\ _flushing' /\ NoTimerPending' ]_vars
    /\ [][ ~_flushing /\ 0 < Len(_q) /\ Len(_q) < Threshold /\ Resume
           => /\ emitted' = emitted /\ _q' = _q /\ _flushing'
              /\ _timer' # NoTimer /\ scheduled' = {_timer'} ]_vars

(* Reached: more items than the threshold were delivered in one saturated   *)
(* batch, which only a resume() after pushes made while paused produces.    *)
C4_Witness ==
    /\ emitted # <<>> /\ Last(emitted).saturated
    /\ Len(Last(emitted).items) > Threshold
    /\ _q = <<>> /\ _flushing /\ NoTimerPending

(***************************************************************************)
(* C5.  In cargo mode with cargoChunkSize = N, the push that completes N   *)
(* buffered items hands exactly those N items, in order, to the cargo      *)
(* handler (so k*N pushes give k invocations of N items), hand-offs are    *)
(* the only notifications, and at most one invocation is outstanding.      *)
(***************************************************************************)
C5_Claim ==
    /\ [][ /\ _cargoMode /\ _flushing /\ outstanding = 0
           /\ Len(_q) + 1 = _cargoLimit /\ Len(_q) <= _safetyLimit
           /\ Push
           => /\ EmitsOne("cargo", Append(_q, NextItem), TRUE)
              /\ outstanding' = 1 ]_vars
    /\ [](outstanding <= 1)

(***************************************************************************)
(* C6.  In a queue constructed with a cargo handler every flush removes    *)
(* the first min(cargoChunkSize, length) items, passes them to the handler *)
(* with a resume callback, leaves the rest in the buffer, disables         *)
(* flushing and emits no 'flush' event.                                    *)
(***************************************************************************)
C6_Claim ==
    [][ _cargoMode /\ emitted' # emitted
        => /\ Len(emitted') = Len(emitted) + 1
           /\ Last(emitted').type = "cargo"
           /\ Len(Last(emitted').items) <= _cargoLimit
           /\ (_q' # <<>> => Len(Last(emitted').items) = _cargoLimit)
           /\ outstanding' = outstanding + 1
           /\ ~_flushing' ]_vars

(***************************************************************************)
(* C7.  empty() sets the buffer length to 0 and cancels the pending timer, *)
(* emits nothing and leaves the flushing flag alone; a timer that was      *)
(* pending when empty() was called never fires afterwards, and the         *)
(* discarded items are never delivered.                                    *)
(***************************************************************************)
C7_EmptyDiscards ==
    /\ [][ Empty => /\ _q' = <<>> /\ NoTimerPending'
                    /\ emitted' = emitted /\ _flushing' = _flushing ]_vars
    /\ [](revoked \cap scheduled = {})
    /\ [][ (fired' \ fired) \cap revoked' = {} ]_vars
    /\ [](discarded \cap Delivered(emitted) = {})

(* Reached: empty() discarded items and cancelled a pending timer, and the *)
(* queue went on to arm and fire a later timer and deliver later items.    *)
C7_Witness ==
    /\ discarded # {} /\ revoked # {} /\ revoked \cap fired = {}
    /\ \E r \in revoked : \E h \in fired : h > r
    /\ Delivered(emitted) # {}

(***************************************************************************)
(* C8.  A batch lists the items in buffer order: push appends to the tail, *)
(* unshift prepends to the head, a flush hands out the buffer as it stands *)
(* (so the stream of delivered items followed by the buffer only grows at  *)
(* its end by a push, and at the head of the buffer by an unshift), and    *)
(* with pushes only the items are delivered in the order they were         *)
(* enqueued, within a batch and across consecutive flushes.                *)
(***************************************************************************)
C8_BufferOrder ==
    /\ [][ Push => \/ Flat(emitted') \o _q' = Flat(emitted) \o _q \o <<NextItem>>
                   \/ Len(_q) >= _safetyLimit /\ _q' = _q /\ emitted' = emitted
         ]_vars
    /\ [][ Unshift => \/ Flat(emitted') \o _q' = Flat(emitted) \o <<NextItem>> \o _q
                      \/ Len(_q) >= _safetyLimit /\ _q' = _q /\ emitted' = emitted
         ]_vars
    /\ [][ TimerFire \/ Resume \/ Pause
           => Flat(emitted') \o _q' = Flat(emitted) \o _q ]_vars
    /\ [][ emitted' # emitted
           => /\ Len(emitted') = Len(emitted) + 1
              /\ SubSeq(emitted', 1, Len(emitted)) = emitted ]_vars
    /\ [](~unshiftUsed => IsIncreasing(Flat(emitted) \o _q))

(* Reached: item 2 was unshifted before item 1 and item 3 pushed behind it, *)
(* and the batch lists them in that order.                                  *)
C8_Witness ==
    \E i \in DOMAIN emitted :
        /\ Len(emitted[i].items) >= 3
        /\ emitted[i].items[1] > emitted[i].items[2]
        /\ emitted[i].items[2] < emitted[i].items[3]

(***************************************************************************)
(* C9.  No timer is pending while the buffer is empty, and no flush emits  *)
(* an empty batch (or hands an empty chunk to the cargo handler).          *)
(***************************************************************************)
C9_Claim ==
    /\ _q = <<>> => NoTimerPending
    /\ \A i \in DOMAIN emitted : emitted[i].items # <<>>

(***************************************************************************)
(* C10.  The batch an observer received in a notification still contains   *)
(* the items it was handed, after _flush clears the buffer and after any   *)
(* later push, unshift or empty().                                         *)
(***************************************************************************)
C10_Claim == \A i \in DOMAIN emitted : batchNow(emitted[i]) = emitted[i].items

(* The flush-check has run on buffer `buf`: nothing while paused; a flush *)
(* when `buf` is saturated; otherwise the buffer is kept and a timer is    *)
(* pending, the one that was pending before if there was one.              *)
FlushChecked(buf) ==
    /\ ~_flushing
       => /\ _q' = buf /\ emitted' = emitted
          /\ _timer' = _timer /\ scheduled' = scheduled /\ ~_flushing'
    /\ _flushing /\ Len(buf) >= Threshold
       => /\ Len(emitted') = Len(emitted) + 1
          /\ Last(emitted').items = buf /\ NoTimerPending'
    /\ _flushing /\ Len(buf) < Threshold
       => /\ _q' = buf /\ emitted' = emitted /\ _flushing'
          /\ _timer' # NoTimer /\ scheduled' = {_timer'}
          /\ (_timer # NoTimer => _timer' = _timer)

(***************************************************************************)
(* C11.  A push or unshift made while the buffer length exceeds safetyCap  *)
(* is dropped: buffer, pending timer, flushing flag and notifications are  *)
(* unchanged (no flush-check, no flush).  Every other push or unshift adds *)
(* exactly one item, at the tail or at the head, and runs the flush-check. *)
(***************************************************************************)
C11_DropOrEnqueue ==
    /\ [][ (Push \/ Unshift) /\ Len(_q) > _safetyLimit
           => /\ UNCHANGED <<_q, _timer, scheduled, timerCount, _flushing, emitted>>
              /\ NextItem \notin accepted' ]_vars
    /\ [][ Push /\ Len(_q) <= _safetyLimit
           => /\ accepted' = accepted \cup {NextItem}
              /\ FlushChecked(Append(_q, NextItem)) ]_vars
    /\ [][ Unshift /\ Len(_q) <= _safetyLimit
           => /\ accepted' = accepted \cup {NextItem}
              /\ FlushChecked(<<NextItem>> \o _q) ]_vars

(* Reached: the buffer is over the cap and an offered item was dropped. *)
C11_Witness ==
    /\ Len(_q) > _safetyLimit
    /\ (1..itemCount) \ accepted # {}
    /\ accepted = Items(_q)

(***************************************************************************)
(* C12, the part that holds.  At most one timer is outstanding, the one    *)
(* the queue holds.  A push or unshift that leaves the buffer unsaturated  *)
(* arms a                                                                  *)
(* fresh timer when none is pending and otherwise leaves the pending one   *)
(* as it is: same handle, no new setTimeout call (a handle's deadline is   *)
(* set by the setTimeout call that made it, so it is not extended).  When  *)
(* that timer fires it delivers every item buffered in its window.         *)
(***************************************************************************)
C12_OneTimerNeverReset ==
    /\ [](/\ Cardinality(scheduled) <= 1
          /\ scheduled = IF _timer = NoTimer THEN {} ELSE {_timer})
    /\ [][ /\ (Push \/ Unshift) /\ _flushing
           /\ Len(_q) + 1 < Threshold /\ Len(_q) <= _safetyLimit
           => IF _timer = NoTimer
              THEN _timer' = timerCount + 1 /\ timerCount' = timerCount + 1
              ELSE _timer' = _timer /\ scheduled' = scheduled
                   /\ timerCount' = timerCount
         ]_vars
    /\ [][ TimerFire
           => /\ fired' = fired \cup {_timer}
              /\ Len(emitted') = Len(emitted) + 1
              /\ Last(emitted').items = _q /\ _q' = <<>> ]_vars

(***************************************************************************)
(* C12.  At most one timer is outstanding and a pending timer is never     *)
(* reset or extended; the timer of a window is armed by the first push or  *)
(* unshift into the empty buffer, so the flush time of the window is fixed *)
(* by that call, and that one timer flush delivers every item of the       *)
(* window.                                                                 *)
(***************************************************************************)
C12_Claim ==
    /\ C12_OneTimerNeverReset
    /\ [][ /\ (Push \/ Unshift) /\ _flushing /\ _q = <<>> /\ 1 < Threshold
           => _timer' = timerCount + 1 /\ scheduled' = {_timer'} ]_vars

(***************************************************************************)
(* C13.  `new BatchedQueue(options)`, with or without an options object,   *)
(* completes without raising an error and leaves an empty buffer, flushing *)
(* enabled, no pending timer, and cargo mode on exactly when options.cargo *)
(* is a function.                                                          *)
(***************************************************************************)
C13_Claim ==
    construction.stage # "new"
    => /\ construction.stage = "returned"
       /\ _q = <<>>
       /\ _flushing = TRUE
       /\ _timer = NoTimer
       /\ _cargoMode = (construction.options.cargo = "function")

(***************************************************************************)
(* C14.  While flushing is disabled no timer is pending and no flush of    *)
(* either kind occurs: pause() cancels the pending timer, no operation     *)
(* arms a timer or emits while the queue stays paused, and no timer fires  *)
(* in the paused period.                                                   *)
(***************************************************************************)
C14_PausedIsQuiet ==
    /\ [](~_flushing => NoTimerPending)
    /\ [][ Pause => ~_flushing' /\ NoTimerPending' /\ emitted' = emitted ]_vars
    /\ [][ ~_flushing /\ ~_flushing'
           => emitted' = emitted /\ timerCount' = timerCount ]_vars
    /\ [][ ~_flushing => fired' = fired ]_vars

(* Reached: a timer was armed for buffered items and pause() cancelled it *)
(* before it fired; the items wait in the paused queue.                   *)
C14_Witness ==
    /\ ~_flushing /\ _q # <<>> /\ NoTimerPending
    /\ timerCount >= 1 /\ fired = {} /\ revoked = {} /\ emitted = <<>>

(***************************************************************************)
(* C15.  At most one flush is in flight at a time, also when a callback    *)
(* calls push, unshift or resume on the queue while it is being notified:  *)
(* no notification starts while the callback of a previous one has not     *)
(* returned.                                                               *)
(***************************************************************************)
C15_Claim == maxInFlight <= 1

(***************************************************************************)
(* C16.  saturated is true exactly when the buffer length has reached      *)
(* cargoChunkSize in cargo mode and sizeThreshold otherwise, and _flush    *)
(* goes by the same mode: a queue that counts saturation by cargoChunkSize *)
(* flushes through the cargo handler, every other queue through the        *)
(* 'flush' event.                                                          *)
(***************************************************************************)
C16_Claim ==
    /\ saturated(This) = (Len(_q) >= Threshold)
    /\ \A i \in DOMAIN emitted : (emitted[i].type = "cargo") = _cargoMode

(***************************************************************************)
(* C17.  For an owner who never calls pause() or empty(): whenever         *)
(* flushing is enabled and the buffer is not empty a timer is pending;     *)
(* hence, timers being fair, a non-empty buffer is eventually emptied, and *)
(* an item leaves the buffer only by being emitted in a flush: every       *)
(* accepted item is eventually emitted.                                    *)
(***************************************************************************)
C17_EventuallyFlushed ==
    /\ [](_flushing /\ _q # <<>> => _timer # NoTimer /\ scheduled = {_timer})
    /\ [][ Items(_q) \ Items(_q') \subseteq Delivered(emitted') ]_vars
    /\ [](accepted \subseteq Items(_q) \cup Delivered(emitted))
    /\ (_flushing /\ _q # <<>>) ~> (_q = <<>>)

(* Reached: one item was delivered by a timer flush while the queue stayed *)
(* enabled and never emptied, and a later item waits with a timer pending. *)
C17_Witness ==
    /\ _flushing /\ _q # <<>> /\ _timer # NoTimer /\ discarded = {}
    /\ fired # {} /\ emitted # <<>>
    /\ ~Last(emitted).saturated /\ Last(emitted).items # <<>>

(***************************************************************************)
(* C18.  Whenever an operation called from outside a callback has returned *)
(* and flushing is enabled, the buffer is not saturated; so a timer is     *)
(* pending only on an unsaturated buffer, every flush made by a timer      *)
(* reports saturated = FALSE, and every flush made inside push, unshift or *)
(* resume reports saturated = TRUE.                                        *)
(***************************************************************************)
C18_UnsaturatedWhenEnabled ==
    /\ [](_flushing => Len(_q) < Threshold)
    /\ [](_timer # NoTimer => Len(_q) < Threshold)
    /\ [][ TimerFire => ~Last(emitted').saturated ]_vars
    /\ [][ (Push \/ Unshift \/ Resume) /\ emitted' # emitted
           => Last(emitted').saturated ]_vars

(* Reached: a timer has delivered an unsaturated batch and a call has *)
(* delivered a saturated one.                                         *)
C18_Witness ==
    \E i, j \in DOMAIN emitted :
        /\ emitted[i].saturated /\ Len(emitted[i].items) = Threshold
        /\ ~emitted[j].saturated /\ emitted[j].items # <<>>

(***************************************************************************)
(* C19.  In non-cargo mode, with callbacks that do not call back, every    *)
(* accepted item is in exactly one place: in the buffer, in exactly one    *)
(* emitted batch, or discarded by an empty(); none is emitted twice and    *)
(* none disappears.                                                        *)
(***************************************************************************)
C19_Conservation ==
    ~_cargoMode
    => LET all == Flat(emitted) \o _q
       IN  /\ Cardinality(Items(all)) = Len(all)
           /\ Items(all) \cap discarded = {}
           /\ accepted = Items(all) \cup discarded

(* Reached: one item delivered, one discarded, one still buffered. *)
C19_Witness ==
    /\ ~_cargoMode
    /\ Delivered(emitted) # {} /\ discarded # {} /\ _q # <<>>

(***************************************************************************)
(* C20.  An item a 'flush' listener pushes or unshifts while the           *)
(* notification is being delivered is not lost: once the flush has         *)
(* completed, every such item that was accepted is in the buffer, or was   *)
(* delivered in a flush, or was discarded by a later empty().              *)
(***************************************************************************)
C20_Claim ==
    (reentered \cap accepted) \subseteq (Items(_q) \cup Delivered(emitted) \cup discarded)

=============================================================================
